---------------------------- MODULE Spec2Model ----------------------------
(***************************************************************************)
(* Linear regression by gradient descent, 01_Linear_Regression.ipynb.      *)
(*                                                                         *)
(* The notebook builds a Keras-backend graph  y = w*x + b,                 *)
(* loss = mean(square(y - target)), takes its gradients with respect to    *)
(* [w, b], wraps them in  train = K.function([x, target], [loss], updates) *)
(* and calls train 200 times on a synthetic data set.                      *)
(*                                                                         *)
(* Numbers.  The backend's floating point values are modelled in fixed     *)
(* point, every quantity an integer count of a unit:                       *)
(*     w, b, lr, gradients      1 / Scale                                  *)
(*     x                        1 / XDen                                   *)
(*     y, target, y - target    1 / (Scale * XDen)                         *)
(*     loss                     1 / (Scale * XDen)^2                       *)
(* so that y - target and the sums under the means are exact, and the only *)
(* roundings are the ones of a mean's division and of lr * gradient, each  *)
(* to the nearest unit (RoundDiv).  All intermediate values stay below     *)
(* 2^31.                                                                   *)
(***************************************************************************)
EXTENDS Integers, Sequences, FiniteSets

\* ------------------------------------------------------------------ bounds
Scale == 2000       \* resolution of a parameter value: 1/Scale
DataLen == 4        \* points of the data set (np.random.rand(1000) in the run)
InitGrid == 4       \* initial w and b are drawn from {0, 1/InitGrid, ...} in [0,1)
MaxRuns == 2        \* executions of the training cell in one kernel session
MaxBatch == 3       \* longest batch fed to train directly

\* ------------------------------------------------------- program constants
Epochs == 200       \* for epoch in range(200)
ReportEvery == 20   \* if epoch % 20 == 0
LossDigits == 1000  \* "%.03f": thousandths
ParamDigits == 100  \* "%.02f": hundredths
XDen == DataLen
LossUnit == (Scale * XDen) * (Scale * XDen)     \* the loss 1.0
NaN == -1           \* K.mean of an empty tensor (a loss is otherwise >= 0)

VARIABLES
    x, target,        \* the K.placeholder inputs: what the last call fed
    w, b,             \* the K.variable parameters
    np_x, np_target,  \* the data set of the training cell
    loss_history,     \* the training cell's list
    current_loss,     \* the training cell's current_loss
    epoch,            \* the iterations of the for loop completed
    pc,               \* "defined": graph and train built; "training": in
                      \* the for loop; "done": loop ended; "failed": train raised
    stdout,           \* the lines printed, in order
    result,           \* what the last call of train returned (<<>>: nothing)
    raised,           \* the last call of train raised an exception
    calls,            \* calls of train so far
    finished          \* the completed executions of the training cell

vars == <<x, target, w, b, np_x, np_target, loss_history, current_loss, epoch, pc,
          stdout, result, raised, calls, finished>>

\* ----------------------------------------------------------- arithmetic
\* a / d rounded to the nearest integer (d > 0)
RoundDiv(a, d) == (2 * a + d) \div (2 * d)

RECURSIVE SumTo(_, _)
SumTo(f, n) == IF n = 0 THEN 0 ELSE f[n] + SumTo(f, n - 1)

\* the sum of a sequence, 0 for the empty one
Sum(f) == SumTo(f, Len(f))

\* lr = K.variable(0.1)
lrSmall == Scale \div 100

lr == Scale \div 10

\* np.random.rand(): a value of [0, 1)
Rand == { (i * Scale) \div InitGrid : i \in 0 .. (InitGrid - 1) }

\* ---------------------------------------------------------- the graph
\* Elementwise operations broadcast a length-1 operand
Bc(s, i) == IF Len(s) = 1 THEN s[1] ELSE s[i]

Broadcastable(xb, tb) == Len(xb) = Len(tb) \/ Len(xb) = 1 \/ Len(tb) = 1

BLen(xb, tb) == IF Len(xb) = 1 THEN Len(tb) ELSE Len(xb)

\* y = w * x + b
y(pw, pb, xb) == [i \in 1 .. Len(xb) |-> pw * xb[i] + XDen * pb]

\* y - target
Residual(pw, pb, xb, tb) ==
    [i \in 1 .. BLen(xb, tb) |-> Bc(y(pw, pb, xb), i) - Bc(tb, i)]

\* loss = K.mean(K.square(y - target))
loss(pw, pb, xb, tb) ==
    LET d == Residual(pw, pb, xb, tb)
        n == Len(d)
    IN  IF n = 0 THEN NaN
        ELSE RoundDiv(Sum([i \in 1 .. n |-> d[i] * d[i]]), n)

\* grads = K.gradients(loss, [w, b]): the backward pass sums, over the
\* elements of y - target, 2 * (y - target) / n times x (for w) and times 1
\* (for b); over no element the sum is 0.
gradsHalf(pw, pb, xb, tb) ==
    LET d == Residual(pw, pb, xb, tb)
        n == Len(d)
    IN  IF n = 0 THEN <<0, 0>>
        ELSE << RoundDiv(Sum([i \in 1 .. n |-> d[i] * Bc(xb, i)]), n * XDen * XDen),
                RoundDiv(Sum([i \in 1 .. n |-> d[i]]), n * XDen) >>

grads(pw, pb, xb, tb) ==
    LET d == Residual(pw, pb, xb, tb)
        n == Len(d)
    IN  IF n = 0 THEN <<0, 0>>
        ELSE << RoundDiv(2 * Sum([i \in 1 .. n |-> d[i] * Bc(xb, i)]), n * XDen * XDen),
                RoundDiv(2 * Sum([i \in 1 .. n |-> d[i]]), n * XDen) >>

\* lr * g
Mul(a, g) == RoundDiv(a * g, Scale)

\* updates = [[w, w - lr*grads[0]], [b, b - lr*grads[1]]]: the new values,
\* both from the gradients at (pw, pb)
updatesSequential(pw, pb, xb, tb) ==
    LET nw == pw - Mul(lr, grads(pw, pb, xb, tb)[1])
    IN  << nw, pb - Mul(lr, grads(nw, pb, xb, tb)[2]) >>

updatesAscent(pw, pb, xb, tb) ==
    LET g == grads(pw, pb, xb, tb)
    IN  << pw + Mul(lr, g[1]), pb + Mul(lr, g[2]) >>

updates(pw, pb, xb, tb) ==
    LET g == grads(pw, pb, xb, tb)
    IN  << pw - Mul(lr, g[1]), pb - Mul(lr, g[2]) >>

\* train = K.function(inputs=[x, target], outputs=[loss], updates=updates):
\* one call evaluates the outputs and the new values at the current
\* parameters and then assigns the new values.  Operands that cannot be
\* broadcast make the backend raise, with nothing assigned.
trainPostLoss(pw, pb, xb, tb) ==
    IF ~Broadcastable(xb, tb)
    THEN [raised |-> TRUE, outputs |-> <<>>, w |-> pw, b |-> pb]
    ELSE LET u == updates(pw, pb, xb, tb)
         IN  [raised |-> FALSE, outputs |-> <<loss(u[1], u[2], xb, tb)>>,
              w |-> u[1], b |-> u[2]]

train(pw, pb, xb, tb) ==
    IF ~Broadcastable(xb, tb)
    THEN [raised |-> TRUE, outputs |-> <<>>, w |-> pw, b |-> pb]
    ELSE LET u == updates(pw, pb, xb, tb)
         IN  [raised |-> FALSE, outputs |-> <<loss(pw, pb, xb, tb)>>,
              w |-> u[1], b |-> u[2]]


\* ------------------------------------------------------------ the data
\* np_x = np.random.rand(1000): a sample of [0, 1), here the DataLen evenly
\* spaced points 0, 1/XDen, ..., in either order
EvenSample == [i \in 1 .. DataLen |-> i - 1]

Datasets == { EvenSample, [i \in 1 .. DataLen |-> DataLen - i] }

\* the line the data lie on: 0.96 and 0.24
TrueW == (96 * Scale) \div 100
TrueB == (24 * Scale) \div 100

\* np_target = 0.96*np_x + 0.24
Target(xs) == [i \in 1 .. Len(xs) |-> TrueW * xs[i] + TrueB * XDen]

\* the batches a caller may feed to train directly: x and target values 0.0
\* and 1.0, lengths 0 .. MaxBatch
SeqsUpTo(S, n) == UNION { [1 .. k -> S] : k \in 0 .. n }
XBatches == SeqsUpTo({0, XDen}, MaxBatch)
TBatches == SeqsUpTo({0, Scale * XDen}, MaxBatch)

\* ------------------------------------------------------------ reporting
\* "%.03f" % current_loss and "%.02f" % K.eval(w): the value rounded to the
\* digits kept, in thousandths and in hundredths
FmtLoss(l) == IF l = NaN THEN NaN ELSE RoundDiv(l, LossUnit \div LossDigits)
FmtParam(v) == RoundDiv(v * ParamDigits, Scale)

\* print "Loss: %.03f, w, b: [%.02f, %.02f]" % (current_loss, K.eval(w), K.eval(b))
\* as a step of the cell's state st: it reads st and adds a line to stdout
printRound(st) ==
    [st EXCEPT !.w = (FmtParam(st.w) * Scale) \div ParamDigits,
               !.b = (FmtParam(st.b) * Scale) \div ParamDigits,
               !.stdout = Append(st.stdout,
                   <<FmtLoss(st.current_loss), FmtParam(st.w), FmtParam(st.b)>>)]

printFresh(st) ==
    [st EXCEPT !.stdout = Append(st.stdout,
        <<FmtLoss(loss(st.w, st.b, np_x, np_target)), FmtParam(st.w), FmtParam(st.b)>>)]

print(st) ==
    [st EXCEPT !.stdout = Append(st.stdout,
        <<FmtLoss(st.current_loss), FmtParam(st.w), FmtParam(st.b)>>)]

\* range(n)
rangeInclusive(n) == 0 .. n

range(n) == 0 .. (n - 1)

\* ------------------------------------------------------------- the state
\* After the first four code cells: lr, w and b are set, the graph and train
\* are defined, no data yet.
Init ==
    /\ x = <<>>
    /\ target = <<>>
    /\ w \in Rand
    /\ b \in Rand
    /\ np_x = <<>>
    /\ np_target = <<>>
    /\ loss_history = <<>>
    /\ current_loss = NaN
    /\ epoch = 0
    /\ pc = "defined"
    /\ stdout = <<>>
    /\ result = <<>>
    /\ raised = FALSE
    /\ calls = 0
    /\ finished = <<>>

\* The training cell up to its for statement: generate the data, start an
\* empty loss_history.  The cell can be executed again once it has finished;
\* w and b are kernel state and keep their values.
RunTrainingCell ==
    /\ pc \in {"defined", "done"}
    /\ Len(finished) < MaxRuns
    /\ np_x' \in Datasets
    /\ np_target' = Target(np_x')
    /\ loss_history' = <<>>
    /\ epoch' = 0
    /\ pc' = "training"
    /\ stdout' = <<>>
    /\ UNCHANGED <<x, target, w, b, current_loss, result, raised, calls, finished>>

\* One iteration of  for epoch in range(200):  the call of train, the append
\* and, every 20th epoch, the print.  An exception of train ends the cell.
LoopIter ==
    /\ pc = "training"
    /\ epoch \in range(Epochs)
    /\ x' = np_x
    /\ target' = np_target
    /\ \E r \in {train(w, b, np_x, np_target)} :
           /\ calls' = calls + 1
           /\ raised' = r.raised
           /\ result' = r.outputs
           /\ IF r.raised
              THEN /\ pc' = "failed"
                   /\ UNCHANGED <<w, b, loss_history, current_loss, epoch,
                                  stdout, finished>>
              ELSE \E st1 \in {[w |-> r.w, b |-> r.b,
                                current_loss |-> r.outputs[1],
                                loss_history |-> Append(loss_history, r.outputs[1]),
                                stdout |-> stdout]} :
                   \E st2 \in {IF epoch % ReportEvery = 0 THEN print(st1) ELSE st1} :
                       /\ w' = st2.w
                       /\ b' = st2.b
                       /\ current_loss' = st2.current_loss
                       /\ loss_history' = st2.loss_history
                       /\ stdout' = st2.stdout
                       /\ epoch' = epoch + 1
                       /\ pc' = IF (epoch + 1) \in range(Epochs)
                                THEN "training" ELSE "done"
                       /\ finished' = IF (epoch + 1) \in range(Epochs)
                                      THEN finished
                                      ELSE Append(finished,
                                               [x |-> np_x, history |-> st2.loss_history])
    /\ UNCHANGED <<np_x, np_target>>

\* A direct call  train([xb, tb])  at the parameters of Init
TrainCall(xb, tb) ==
    /\ pc = "defined"
    /\ calls = 0
    /\ x' = xb
    /\ target' = tb
    /\ \E r \in {train(w, b, xb, tb)} :
           /\ w' = r.w
           /\ b' = r.b
           /\ result' = r.outputs
           /\ raised' = r.raised
    /\ calls' = calls + 1
    /\ UNCHANGED <<np_x, np_target, loss_history, current_loss, epoch, pc,
                   stdout, finished>>

\* The notebook run top to bottom, the training cell possibly executed again
Next == RunTrainingCell \/ LoopIter

Spec == Init /\ [][Next]_vars

\* train called on batches of a caller's choice
NextStep == \E xb \in XBatches, tb \in TBatches : TrainCall(xb, tb)

SpecStep == Init /\ [][NextStep]_vars

\* ---------------------------------------------------------- properties
Abs(v) == IF v < 0 THEN -v ELSE v

\* 0.05 and 0.1 of a parameter
Tol05 == (5 * Scale) \div 100
Tol10 == (10 * Scale) \div 100

\* C1: in every step the new weight and the new bias are both computed from
\* the gradients at the pre-update (weight, bias): the new bias is
\* b - lr * grad_bias(w, b), not a gradient taken at the updated weight.
C1_SynchronousUpdate ==
    [][ calls' = calls + 1 =>
            \E g \in {grads(w, b, np_x, np_target)} :
                /\ w' = w - Mul(lr, g[1])
                /\ b' = b - Mul(lr, g[2]) ]_vars

\* a step has run, and from here updating w before taking b's gradient would
\* leave other parameters than the step does
C1_Witness ==
    /\ pc = "training"
    /\ epoch = 2
    /\ updatesSequential(w, b, np_x, np_target)[2] # updates(w, b, np_x, np_target)[2]

\* C2: the loss a step returns is the mean squared error at the parameters
\* before that step's update; it is what the loop appends, so entry k of the
\* loss history is the loss of the parameters after k-1 updates.
C2_LossIsPreUpdate ==
    [][ calls' = calls + 1 =>
            \E l \in {loss(w, b, np_x, np_target)} :
                /\ result' = <<l>>
                /\ current_loss' = l
                /\ loss_history' = Append(loss_history, l) ]_vars

\* two steps have run, the loss fell, and the last loss recorded is not the
\* loss of the parameters the step left behind
C2_Witness ==
    /\ pc = "training"
    /\ epoch = 2
    /\ loss_history[2] < loss_history[1]
    /\ loss_history[2] # loss(w, b, np_x, np_target)

\* C3: the training loop performs exactly Epochs steps, each from the
\* parameters the previous one produced, and appends one loss per step: the
\* length of the loss history is the number of steps completed, entries
\* already appended never change, and the loop ends with Epochs entries.
\* (While the loop runs the count is below Epochs, which is all the next
\* iteration needs to run, and every iteration adds one to the count: the
\* sequential loop ends.)
C3_ExactlyEpochsSteps ==
    [][ /\ pc = "training" =>
               /\ Len(loss_history') = Len(loss_history) + 1
               /\ \A k \in 1 .. Len(loss_history) : loss_history'[k] = loss_history[k]
               /\ epoch' = epoch + 1
               /\ calls' = calls + 1
               /\ <<w', b'>> = updates(w, b, np_x, np_target)
               /\ pc' \in {"training", "done"}
        /\ (pc \in {"training", "done"} => Len(loss_history) = epoch)'
        /\ (pc = "training" => epoch < Epochs)'
        /\ (pc = "done" => /\ Len(loss_history) = Epochs
                           /\ calls = Epochs * Len(finished))' ]_vars

\* the loop has ended, with Epochs losses recorded
C3_Witness == pc = "done" /\ epoch = Epochs /\ Len(loss_history) = Epochs

\* C4: a step called with x_batch and y_batch of different lengths, or with
\* empty batches, fails with an error: it returns no loss, appends nothing to
\* the loss history and leaves weight and bias unchanged.
C4_InvalidInputRejected ==
    [][ (calls' = calls + 1 /\ (Len(x') # Len(target') \/ Len(x') = 0)) =>
            /\ raised'
            /\ result' = <<>>
            /\ w' = w
            /\ b' = b
            /\ loss_history' = loss_history ]_vars

\* C5: progress reporting, on the epochs whose index is a multiple of
\* ReportEvery and only on those, just reads: on every iteration, reported or
\* not, the parameters and the loss history the iteration leaves are the ones
\* of the step alone.
C5_ReportingOnlyReads ==
    [][ epoch' = epoch + 1 =>
            /\ <<w', b'>> = updates(w, b, np_x, np_target)
            /\ loss_history' = Append(loss_history, loss(w, b, np_x, np_target))
            /\ IF epoch % ReportEvery = 0
               THEN Len(stdout') = Len(stdout) + 1
               ELSE stdout' = stdout ]_vars

\* a report has been printed and the run has gone on, to a second report
C5_Witness == pc = "training" /\ epoch = ReportEvery + 1 /\ Len(stdout) = 2

\* C6: two training runs from the same seed on the same inputs record the same
\* loss history, entry by entry: a second execution of the training loop
\* does not start from the parameters the first one left.
C6_RunsAgree ==
    \A i, j \in 1 .. Len(finished) :
        finished[i].x = finished[j].x => finished[i].history = finished[j].history

\* the spec's mean_i(2 * (prediction_i - y_i) * x_i) and
\* mean_i(2 * (prediction_i - y_i)) for batches of one length n > 0
AnalyticGrad(pw, pb, xb, tb) ==
    LET n == Len(xb)
        d == [i \in 1 .. n |-> (pw * xb[i] + XDen * pb) - tb[i]]
    IN  << RoundDiv(Sum([i \in 1 .. n |-> 2 * d[i] * xb[i]]), n * XDen * XDen),
           RoundDiv(Sum([i \in 1 .. n |-> 2 * d[i]]), n * XDen) >>

\* C7: one step from weight = 0, bias = 0 with learning rate 0.1 on
\* x_batch = [1.0], y_batch = [1.0] returns loss 1.0, uses gradients -2.0 and
\* -2.0 and leaves weight = 0.2, bias = 0.2; and a step on any batches of one
\* positive length moves each parameter by the learning rate times the
\* analytic gradient of the mean squared error.
C7_UnitStep ==
    [][ (calls' = calls + 1 /\ Len(x') = Len(target') /\ Len(x') > 0) =>
            /\ \E g \in {AnalyticGrad(w, b, x', target')} :
                   /\ w' = w - Mul(lr, g[1])
                   /\ b' = b - Mul(lr, g[2])
            /\ (w = 0 /\ b = 0 /\ x' = <<XDen>> /\ target' = <<Scale * XDen>>) =>
                   /\ result' = <<LossUnit>>
                   /\ grads(w, b, x', target') = <<-2 * Scale, -2 * Scale>>
                   /\ w' = (2 * Scale) \div 10
                   /\ b' = (2 * Scale) \div 10 ]_vars

\* the step on ([1.0], [1.0]) from (0, 0) has been taken
C7_Witness ==
    /\ calls = 1
    /\ x = <<XDen>>
    /\ target = <<Scale * XDen>>
    /\ result = <<LossUnit>>
    /\ w = (2 * Scale) \div 10
    /\ b = (2 * Scale) \div 10

C9_LossNonIncreasing ==
    \A k \in 1 .. (Len(loss_history) - 1) : loss_history[k + 1] <= loss_history[k]

\* a run has ended and the loss still fell over its last hundred epochs
C9_Witness ==
    /\ pc = "done"
    /\ Len(loss_history) = Epochs
    /\ loss_history[Epochs] < loss_history[Epochs - 100]

\* C10: a progress report pairs values of two moments: its loss is the one
\* computed before the epoch's update, its weight and bias are the values
\* after the update; the loss reported is the loss of the parameters
\* reported only if the step changed nothing.
C10_ReportMixesMoments ==
    [][ Len(stdout') = Len(stdout) + 1 =>
            \E line \in {stdout'[Len(stdout')]} :
                /\ line[1] = FmtLoss(loss(w, b, np_x, np_target))
                /\ line[2] = FmtParam(w')
                /\ line[3] = FmtParam(b')
                /\ current_loss' = loss(w, b, np_x, np_target)
                /\ (current_loss' = loss(w', b', np_x, np_target)
                        => <<w', b'>> = <<w, b>>) ]_vars

\* the first report is out, and the loss it shows is not the loss of the
\* weight and bias it shows
C10_Witness ==
    /\ pc = "training"
    /\ epoch = 1
    /\ Len(stdout) = 1
    /\ stdout[1][1] # FmtLoss(loss(w, b, np_x, np_target))

=============================================================================
